---------------------------- MODULE Spec2Model ----------------------------
(***************************************************************************)
(* Model of piton.py: the little-endian hex decoder hex_le_to_int64, the   *)
(* PostgreSQL timestamptz converter postgres_timestamptz_to_datetime, and  *)
(* the module-level print that runs at import.                             *)
(*                                                                         *)
(* A Python int is unbounded, and the values here need 64 bits, so an int  *)
(* is kept as a sign and a magnitude of decimal limbs (three decimal       *)
(* digits each, least significant first, no leading zero limb).  Every     *)
(* intermediate product stays below 2^31.                                  *)
(***************************************************************************)
EXTENDS Integers, Sequences, FiniteSets

VARIABLES pc, stdout, ref_value, ref_result, hex_str, decoded, int64_value, result

vars == <<pc, stdout, ref_value, ref_result, hex_str, decoded, int64_value, result>>

(***************************************************************************)
(* Python int: magnitudes                                                  *)
(***************************************************************************)
LIMB == 1000

RECURSIVE MagNorm(_)
MagNorm(m) ==
    IF m = <<>> THEN <<>>
    ELSE IF m[Len(m)] = 0 THEN MagNorm(SubSeq(m, 1, Len(m) - 1))
    ELSE m

\* m * k + carry, for 0 <= k <= 10^6 and carry below 2^31 - 999 * k
RECURSIVE MagMulAdd(_, _, _)
MagMulAdd(m, k, carry) ==
    IF m = <<>>
    THEN IF carry = 0 THEN <<>>
         ELSE <<carry % LIMB>> \o MagMulAdd(<<>>, k, carry \div LIMB)
    ELSE LET t == m[1] * k + carry
         IN  <<t % LIMB>> \o MagMulAdd(Tail(m), k, t \div LIMB)

MagMulSmall(m, k) == MagNorm(MagMulAdd(m, k, 0))

MagFromNat(n) == MagMulAdd(<<>>, 0, n)

RECURSIVE MagAddC(_, _, _)
MagAddC(a, b, carry) ==
    IF a = <<>> /\ b = <<>>
    THEN IF carry = 0 THEN <<>> ELSE <<carry>>
    ELSE LET x == IF a = <<>> THEN 0 ELSE a[1]
             y == IF b = <<>> THEN 0 ELSE b[1]
             t == x + y + carry
         IN  <<t % LIMB>> \o MagAddC(IF a = <<>> THEN <<>> ELSE Tail(a),
                                     IF b = <<>> THEN <<>> ELSE Tail(b),
                                     t \div LIMB)

MagAdd(a, b) == MagAddC(a, b, 0)

\* -1, 0 or 1 as a < b, a = b or a > b (both normalised)
RECURSIVE MagCmpFrom(_, _, _)
MagCmpFrom(a, b, i) ==
    IF i = 0 THEN 0
    ELSE IF a[i] < b[i] THEN -1
    ELSE IF a[i] > b[i] THEN 1
    ELSE MagCmpFrom(a, b, i - 1)

MagCmp(a, b) ==
    IF Len(a) < Len(b) THEN -1
    ELSE IF Len(a) > Len(b) THEN 1
    ELSE MagCmpFrom(a, b, Len(a))

\* a - b for a >= b
RECURSIVE MagSubB(_, _, _)
MagSubB(a, b, borrow) ==
    IF a = <<>> THEN <<>>
    ELSE LET y == IF b = <<>> THEN 0 ELSE b[1]
             t == a[1] - y - borrow
         IN  <<(t + LIMB) % LIMB>> \o MagSubB(Tail(a),
                                              IF b = <<>> THEN <<>> ELSE Tail(b),
                                              IF t < 0 THEN 1 ELSE 0)

MagSub(a, b) == MagNorm(MagSubB(a, b, 0))

\* long division of a magnitude by 0 < d <= 10^6, from the most significant limb
RECURSIVE MagDivRem(_, _, _, _)
MagDivRem(m, d, i, r) ==
    IF i = 0 THEN [q |-> <<>>, r |-> r]
    ELSE LET t    == r * LIMB + m[i]
             rest == MagDivRem(m, d, i - 1, t % d)
         IN  [q |-> rest.q \o <<t \div d>>, r |-> rest.r]

MagDivMod(m, d) ==
    LET qr == MagDivRem(m, d, Len(m), 0)
    IN  [q |-> MagNorm(qr.q), r |-> qr.r]

\* a magnitude below 10^9 as a number
MagToNat(m) ==
    (IF Len(m) >= 1 THEN m[1] ELSE 0)
    + (IF Len(m) >= 2 THEN m[2] * LIMB ELSE 0)
    + (IF Len(m) >= 3 THEN m[3] * LIMB * LIMB ELSE 0)

(***************************************************************************)
(* Python int: signed values                                               *)
(***************************************************************************)
PyInt(neg, mag) == [neg |-> neg /\ mag # <<>>, mag |-> mag]

IntZero == PyInt(FALSE, <<>>)

IntFromSmall(n) == IF n < 0 THEN PyInt(TRUE, MagFromNat(-n)) ELSE PyInt(FALSE, MagFromNat(n))

IntNeg(a) == PyInt(~a.neg, a.mag)

IntAdd(a, b) ==
    IF a.neg = b.neg THEN PyInt(a.neg, MagAdd(a.mag, b.mag))
    ELSE IF MagCmp(a.mag, b.mag) >= 0 THEN PyInt(a.neg, MagSub(a.mag, b.mag))
    ELSE PyInt(b.neg, MagSub(b.mag, a.mag))

IntMulSmall(a, k) == PyInt(a.neg, MagMulSmall(a.mag, k))

IntCmp(a, b) ==
    IF a.neg /\ ~b.neg THEN -1
    ELSE IF ~a.neg /\ b.neg THEN 1
    ELSE IF a.neg THEN MagCmp(b.mag, a.mag)
    ELSE MagCmp(a.mag, b.mag)

IntLe(a, b) == IntCmp(a, b) <= 0

IntLt(a, b) == IntCmp(a, b) < 0

\* Python's divmod(a, d) for 0 < d <= 10^6: floor division, 0 <= r < d
IntDivMod(a, d) ==
    LET qr == MagDivMod(a.mag, d)
    IN  IF ~a.neg THEN [q |-> PyInt(FALSE, qr.q), r |-> qr.r]
        ELSE IF qr.r = 0 THEN [q |-> PyInt(TRUE, qr.q), r |-> 0]
        ELSE [q |-> PyInt(TRUE, MagAdd(qr.q, <<1>>)), r |-> d - qr.r]

\* an int written as its decimal groups of three, most significant first
RECURSIVE Reverse(_)
Reverse(s) == IF s = <<>> THEN <<>> ELSE Reverse(Tail(s)) \o <<Head(s)>>

Dec(groups) == PyInt(FALSE, MagNorm(Reverse(groups)))

(***************************************************************************)
(* Characters.  A token is a sequence of one-character strings.            *)
(***************************************************************************)
HexLower == <<"0", "1", "2", "3", "4", "5", "6", "7", "8", "9", "a", "b", "c", "d", "e", "f">>

HexUpper == <<"0", "1", "2", "3", "4", "5", "6", "7", "8", "9", "A", "B", "C", "D", "E", "F">>

\* Py_ISSPACE, which bytes.fromhex uses to skip over white space
Py_ISSPACE(c) == c \in {" ", "\t", "\n", "\r", "\f"}

\* _PyLong_DigitValue: 0..15 for a hexadecimal digit of either case, above 15 otherwise
DigitValue(c) ==
    IF \E i \in 1..16 : HexLower[i] = c THEN (CHOOSE i \in 1..16 : HexLower[i] = c) - 1
    ELSE IF \E i \in 1..16 : HexUpper[i] = c THEN (CHOOSE i \in 1..16 : HexUpper[i] = c) - 1
    ELSE 37

IsHexDigit(c) == DigitValue(c) < 16

(***************************************************************************)
(* bytes.fromhex(hex_str), line 36: white space between byte pairs is      *)
(* skipped, every other character must be one of a pair of hex digits.     *)
(***************************************************************************)
Raised(e) == [tag |-> e]

Returned(v) == [tag |-> "ok", val |-> v]

RECURSIVE SkipSpaces(_, _)
SkipSpaces(s, i) == IF i <= Len(s) /\ Py_ISSPACE(s[i]) THEN SkipSpaces(s, i + 1) ELSE i

RECURSIVE FromHexAt(_, _, _)
FromHexAt(s, i, buf) ==
    LET j == SkipSpaces(s, i)
    IN  IF j > Len(s) THEN Returned(buf)
        ELSE IF DigitValue(s[j]) >= 16 THEN Raised("ValueError")
        ELSE IF j + 1 > Len(s) \/ DigitValue(s[j + 1]) >= 16 THEN Raised("ValueError")
        ELSE FromHexAt(s, j + 2, buf \o <<DigitValue(s[j]) * 16 + DigitValue(s[j + 1])>>)

bytes_fromhex(s) == FromHexAt(s, 1, <<>>)

(***************************************************************************)
(* int.from_bytes(byte_data, byteorder, signed), line 39.  As CPython      *)
(* does: the value is negative when signed and the most significant byte   *)
(* has its top bit set, and then the magnitude is the bytes complemented   *)
(* plus one, accumulated from the least significant byte.                  *)
(***************************************************************************)
RECURSIVE FromBytesAcc(_, _, _, _, _, _)
FromBytesAcc(bytes, i, is_signed, carry, pow, acc) ==
    IF i > Len(bytes) THEN acc
    ELSE LET t        == IF is_signed THEN (255 - bytes[i]) + carry ELSE bytes[i]
             thisbyte == t % 256
         IN  FromBytesAcc(bytes, i + 1, is_signed, t \div 256,
                          MagMulSmall(pow, 256),
                          MagAdd(acc, MagMulSmall(pow, thisbyte)))

int_from_bytes(byte_data, byteorder, signed) ==
    LET bytes     == IF byteorder = "little" THEN byte_data ELSE Reverse(byte_data)
        is_signed == signed /\ bytes # <<>> /\ bytes[Len(bytes)] >= 128
    IN  PyInt(is_signed, MagNorm(FromBytesAcc(bytes, 1, is_signed, 1, <<1>>, <<>>)))

(***************************************************************************)
(* hex_le_to_int64(hex_str), lines 22-39                                   *)
(***************************************************************************)
\* the decoder reading the bytes most significant first
hex_le_to_int64_BigEndian(s) ==
    IF Len(s) # 16 THEN Raised("ValueError")
    ELSE LET byte_data == bytes_fromhex(s)
         IN  IF byte_data.tag # "ok" THEN byte_data
             ELSE Returned(int_from_bytes(byte_data.val, "big", TRUE))

\* the decoder reading the bytes as an unsigned integer
hex_le_to_int64_Unsigned(s) ==
    IF Len(s) # 16 THEN Raised("ValueError")
    ELSE LET byte_data == bytes_fromhex(s)
         IN  IF byte_data.tag # "ok" THEN byte_data
             ELSE Returned(int_from_bytes(byte_data.val, "little", FALSE))

\* the decoder without the length test of lines 32-33
hex_le_to_int64_NoLengthTest(s) ==
    LET byte_data == bytes_fromhex(s)
    IN  IF byte_data.tag # "ok" THEN byte_data
        ELSE Returned(int_from_bytes(byte_data.val, "little", TRUE))

hex_le_to_int64(s) ==
    IF Len(s) # 16 THEN Raised("ValueError")
    ELSE LET byte_data == bytes_fromhex(s)
         IN  IF byte_data.tag # "ok" THEN byte_data
             ELSE Returned(int_from_bytes(byte_data.val, "little", TRUE))

(***************************************************************************)
(* datetime: the proleptic Gregorian calendar of Python's datetime module, *)
(* which lines 14-20 use.                                                  *)
(***************************************************************************)
MINYEAR == 1

MAXYEAR == 9999

MAXORDINAL == 3652059

DAYS_IN_MONTH == <<31, 28, 31, 30, 31, 30, 31, 31, 30, 31, 30, 31>>

DAYS_BEFORE_MONTH == <<0, 31, 59, 90, 120, 151, 181, 212, 243, 273, 304, 334>>

DI400Y == 146097

DI100Y == 36524

DI4Y == 1461

is_leap(year) == year % 4 = 0 /\ (year % 100 # 0 \/ year % 400 = 0)

days_before_year(year) ==
    LET y == year - 1 IN y * 365 + y \div 4 - y \div 100 + y \div 400

days_before_month(year, month) ==
    DAYS_BEFORE_MONTH[month] + (IF month > 2 /\ is_leap(year) THEN 1 ELSE 0)

ymd2ord(year, month, day) == days_before_year(year) + days_before_month(year, month) + day

ord2ymd(ordinal) ==
    LET n0   == ordinal - 1
        n400 == n0 \div DI400Y
        r400 == n0 % DI400Y
        n100 == r400 \div DI100Y
        r100 == r400 % DI100Y
        n4   == r100 \div DI4Y
        r4   == r100 % DI4Y
        n1   == r4 \div 365
        n    == r4 % 365
        year == n400 * 400 + 1 + n100 * 100 + n4 * 4 + n1
    IN  IF n1 = 4 \/ n100 = 4 THEN [year |-> year - 1, month |-> 12, day |-> 31]
        ELSE LET leapyear  == n1 = 3 /\ (n4 # 24 \/ n100 = 3)
                 leapday(m) == IF m > 2 /\ leapyear THEN 1 ELSE 0
                 month0    == (n + 50) \div 32
                 preceding == DAYS_BEFORE_MONTH[month0] + leapday(month0)
                 month     == IF preceding > n THEN month0 - 1 ELSE month0
                 before    == DAYS_BEFORE_MONTH[month] + leapday(month)
             IN  [year |-> year, month |-> month, day |-> n - before + 1]

datetime(year, month, day, hour, minute, second, microsecond, tzinfo) ==
    [year |-> year, month |-> month, day |-> day, hour |-> hour, minute |-> minute,
     second |-> second, microsecond |-> microsecond, tzinfo |-> tzinfo]

(***************************************************************************)
(* timedelta(microseconds=int64_value), line 17: the count is normalised   *)
(* into days, 0 <= seconds < 86400 and 0 <= microseconds < 1000000 by      *)
(* floor division; a day count beyond 999999999 raises OverflowError.      *)
(***************************************************************************)
US_PER_SECOND == 1000000

SECONDS_PER_DAY == 86400

\* the normalisation with quotients rounded toward zero (int(a / b)) beside
\* the non-negative remainders of %
timedelta_microseconds_Truncating(us) ==
    LET secq == PyInt(us.neg, MagDivMod(us.mag, US_PER_SECOND).q)
        dayq == PyInt(us.neg, MagDivMod(secq.mag, SECONDS_PER_DAY).q)
    IN  IF Len(dayq.mag) > 3 THEN Raised("OverflowError")
        ELSE Returned([days         |-> IF dayq.neg THEN -MagToNat(dayq.mag)
                                        ELSE MagToNat(dayq.mag),
                       seconds      |-> IntDivMod(secq, SECONDS_PER_DAY).r,
                       microseconds |-> IntDivMod(us, US_PER_SECOND).r])

\* the normalisation keeping only milliseconds
timedelta_microseconds_Millis(us) ==
    LET sec == IntDivMod(us, US_PER_SECOND)
        day == IntDivMod(sec.q, SECONDS_PER_DAY)
    IN  IF Len(day.q.mag) > 3 THEN Raised("OverflowError")
        ELSE Returned([days         |-> IF day.q.neg THEN -MagToNat(day.q.mag)
                                        ELSE MagToNat(day.q.mag),
                       seconds      |-> day.r,
                       microseconds |-> (sec.r \div 1000) * 1000])

timedelta_microseconds(us) ==
    LET sec == IntDivMod(us, US_PER_SECOND)
        day == IntDivMod(sec.q, SECONDS_PER_DAY)
    IN  IF Len(day.q.mag) > 3 THEN Raised("OverflowError")
        ELSE Returned([days         |-> IF day.q.neg THEN -MagToNat(day.q.mag)
                                        ELSE MagToNat(day.q.mag),
                       seconds      |-> day.r,
                       microseconds |-> sec.r])

(***************************************************************************)
(* datetime + timedelta, line 20: the sum is normalised the same way, and  *)
(* a day ordinal outside 1..MAXORDINAL raises OverflowError.               *)
(***************************************************************************)
\* the addition without the range test on the day ordinal
datetime_add_NoRangeTest(dt, td) ==
    LET us      == dt.microsecond + td.microseconds
        secs    == dt.hour * 3600 + dt.minute * 60 + dt.second + td.seconds
                   + us \div US_PER_SECOND
        days    == ymd2ord(dt.year, dt.month, dt.day) + td.days + secs \div SECONDS_PER_DAY
        seconds == secs % SECONDS_PER_DAY
        ymd     == ord2ymd(days)
    IN  Returned(datetime(ymd.year, ymd.month, ymd.day,
                          seconds \div 3600, (seconds % 3600) \div 60, seconds % 60,
                          us % US_PER_SECOND, dt.tzinfo))

datetime_add(dt, td) ==
    LET us      == dt.microsecond + td.microseconds
        secs    == dt.hour * 3600 + dt.minute * 60 + dt.second + td.seconds
                   + us \div US_PER_SECOND
        days    == ymd2ord(dt.year, dt.month, dt.day) + td.days + secs \div SECONDS_PER_DAY
        seconds == secs % SECONDS_PER_DAY
        ymd     == ord2ymd(days)
    IN  IF 0 < days /\ days <= MAXORDINAL
        THEN Returned(datetime(ymd.year, ymd.month, ymd.day,
                               seconds \div 3600, (seconds % 3600) \div 60, seconds % 60,
                               us % US_PER_SECOND, dt.tzinfo))
        ELSE Raised("OverflowError")

(***************************************************************************)
(* postgres_timestamptz_to_datetime(int64_value), lines 3-20               *)
(***************************************************************************)
postgres_epoch == datetime(2000, 1, 1, 0, 0, 0, 0, "UTC")

\* the converter counting from the Unix epoch instead of the PostgreSQL epoch
postgres_timestamptz_to_datetime_UnixEpoch(value) ==
    LET delta == timedelta_microseconds(value)
    IN  IF delta.tag # "ok" THEN delta
        ELSE datetime_add(datetime(1970, 1, 1, 0, 0, 0, 0, "UTC"), delta.val)

postgres_timestamptz_to_datetime(value) ==
    LET delta == timedelta_microseconds(value)
    IN  IF delta.tag # "ok" THEN delta
        ELSE datetime_add(postgres_epoch, delta.val)

(***************************************************************************)
(* Inputs.  Tokens: the base tokens below, each also with any one          *)
(* character replaced by a character of Alphabet, and the tokens of every  *)
(* other length up to MaxTokenLen cut from a base token repeated.          *)
(***************************************************************************)
MaxTokenLen == 18

Alphabet == {"0", "1", "7", "8", "a", "A", "f", "F", "g", " "}

\* 10, the example of the docstring (line 27)
TokenTen == <<"0", "a", "0", "0", "0", "0", "0", "0", "0", "0", "0", "0", "0", "0", "0", "0">>

\* hex_input of the example at line 42
TokenExample == <<"a", "9", "2", "2", "e", "7", "8", "e", "1", "b", "d", "d", "0", "2", "0", "0">>

\* the same in upper case
TokenExampleUpper == <<"A", "9", "2", "2", "E", "7", "8", "E", "1", "B", "D", "D", "0", "2", "0", "0">>

\* 0
TokenZero == <<"0", "0", "0", "0", "0", "0", "0", "0", "0", "0", "0", "0", "0", "0", "0", "0">>

\* -1
TokenMinusOne == <<"f", "f", "f", "f", "f", "f", "f", "f", "f", "f", "f", "f", "f", "f", "f", "f">>

\* 662770800000000, the literal of line 46
TokenLiteral == <<"0", "0", "f", "c", "1", "9", "5", "a", "c", "9", "5", "a", "0", "2", "0", "0">>

\* 252455615999999999: 9999-12-31T23:59:59.999999
TokenMaxDate == <<"f", "f", "7", "f", "3", "b", "9", "1", "0", "b", "e", "7", "8", "0", "0", "3">>

\* 252455616000000000: one microsecond later
TokenPastMaxDate == <<"0", "0", "8", "0", "3", "b", "9", "1", "0", "b", "e", "7", "8", "0", "0", "3">>

\* -63082281600000000: 0001-01-01T00:00:00
TokenMinDate == <<"0", "0", "6", "0", "9", "c", "c", "5", "f", "f", "e", "2", "1", "f", "f", "f">>

\* -63082281600000001: one microsecond earlier
TokenBeforeMinDate == <<"f", "f", "5", "f", "9", "c", "c", "5", "f", "f", "e", "2", "1", "f", "f", "f">>

\* 2^63 - 1
TokenInt64Max == <<"f", "f", "f", "f", "f", "f", "f", "f", "f", "f", "f", "f", "f", "f", "7", "f">>

\* -2^63
TokenInt64Min == <<"0", "0", "0", "0", "0", "0", "0", "0", "0", "0", "0", "0", "0", "0", "8", "0">>

\* sixteen spaces
TokenBlank == <<" ", " ", " ", " ", " ", " ", " ", " ", " ", " ", " ", " ", " ", " ", " ", " ">>

\* seven byte pairs and two spaces
TokenSevenBytes == <<"0", "a", " ", " ", "0", "0", "0", "0", "0", "0", "0", "0", "0", "0", "0", "0">>

BaseTokens ==
    {TokenTen, TokenExample, TokenExampleUpper, TokenZero,
     TokenMinusOne, TokenLiteral, TokenMaxDate, TokenPastMaxDate,
     TokenMinDate, TokenBeforeMinDate, TokenInt64Max, TokenInt64Min,
     TokenBlank, TokenSevenBytes}

Substitute(tok, i, c) == [tok EXCEPT ![i] = c]

Tokens16 ==
    BaseTokens \cup {Substitute(b, i, c) : b \in BaseTokens, i \in 1..16, c \in Alphabet}

TokensOtherLen ==
    {SubSeq(b \o b \o b, 1, n) : b \in BaseTokens, n \in (0..MaxTokenLen) \ {16}}

Tokens == Tokens16 \cup TokensOtherLen

\* the literal of line 46
PRINT_LITERAL == Dec(<<662, 770, 800, 0, 0>>)

\* offsets a caller hands to the converter directly
SampleOffsets ==
    {IntZero, IntFromSmall(1), IntFromSmall(-1), IntFromSmall(999999),
     IntNeg(Dec(<<86, 400, 0, 0>>)),
     Dec(<<806, 60, 384, 789, 161>>),
     Dec(<<252, 455, 615, 999, 999, 999>>),
     Dec(<<252, 455, 616, 0, 0, 0>>),
     IntNeg(Dec(<<63, 82, 281, 600, 0, 0>>)),
     IntNeg(Dec(<<63, 82, 281, 600, 0, 1>>)),
     Dec(<<9, 223, 372, 36, 854, 775, 807>>),
     IntNeg(Dec(<<9, 223, 372, 36, 854, 775, 808>>))}

(***************************************************************************)
(* The program.  Importing the module runs line 46; after that a caller    *)
(* may call the converter on an offset, and may decode a token and convert *)
(* the decoded integer (the composition of lines 42-43).                   *)
(***************************************************************************)
NoValue == [tag |-> "none"]

Init ==
    /\ pc = "import"
    /\ stdout = NoValue
    /\ ref_value = NoValue
    /\ ref_result = NoValue
    /\ hex_str = <<>>
    /\ decoded = NoValue
    /\ int64_value = NoValue
    /\ result = NoValue

\* line 46: print(postgres_timestamptz_to_datetime(662770800000000))
ModulePrint ==
    /\ pc = "import"
    /\ stdout' = postgres_timestamptz_to_datetime(PRINT_LITERAL)
    /\ pc' = "idle"
    /\ UNCHANGED <<ref_value, ref_result, hex_str, decoded, int64_value, result>>

\* a call of postgres_timestamptz_to_datetime (lines 3-20) on an offset
CallConverter ==
    /\ pc = "idle"
    /\ \E off \in SampleOffsets :
          /\ ref_value' = off
          /\ ref_result' = postgres_timestamptz_to_datetime(off)
    /\ UNCHANGED <<pc, stdout, hex_str, decoded, int64_value, result>>

\* a call of hex_le_to_int64 (lines 22-39) on a token; an exception ends the run
CallDecoder ==
    /\ pc = "idle"
    /\ \E tok \in Tokens :
          /\ hex_str' = tok
          /\ decoded' = hex_le_to_int64(tok)
          /\ pc' = IF decoded'.tag = "ok" THEN "decoded" ELSE "done"
    /\ UNCHANGED <<stdout, ref_value, ref_result, int64_value, result>>

\* line 43: the decoded integer is handed to the converter
ConvertDecoded ==
    /\ pc = "decoded"
    /\ int64_value' = decoded.val
    /\ result' = postgres_timestamptz_to_datetime(decoded.val)
    /\ pc' = "done"
    /\ UNCHANGED <<stdout, ref_value, ref_result, hex_str, decoded>>

Next == ModulePrint \/ CallConverter \/ CallDecoder \/ ConvertDecoded

Spec == Init /\ [][Next]_vars

(***************************************************************************)
(* The re-encoding of the round-trip law: the signed 64-bit integer as     *)
(* eight two's-complement bytes, least significant first, each written as  *)
(* two hexadecimal digits.                                                 *)
(***************************************************************************)
TwoPow63 == Dec(<<9, 223, 372, 36, 854, 775, 808>>)

TwoPow64 == Dec(<<18, 446, 744, 73, 709, 551, 616>>)

RECURSIVE ToHexLE(_, _)
ToHexLE(mag, n) ==
    IF n = 0 THEN <<>>
    ELSE LET qr == MagDivMod(mag, 256)
         IN  <<HexLower[(qr.r \div 16) + 1], HexLower[(qr.r % 16) + 1]>> \o ToHexLE(qr.q, n - 1)

int64_to_hex_le(v) == ToHexLE(IF v.neg THEN MagSub(TwoPow64.mag, v.mag) ELSE v.mag, 8)

(***************************************************************************)
(* What the properties below are stated with.  These are written from the  *)
(* definitions of the notions (hexadecimal digits, two's complement, the   *)
(* Gregorian calendar), not from the steps of the code.                    *)
(***************************************************************************)
DecoderCalled == pc \in {"decoded", "done"}

NibbleOf(c) ==
    CASE c = "0" -> 0 [] c = "1" -> 1 [] c = "2" -> 2 [] c = "3" -> 3
      [] c = "4" -> 4 [] c = "5" -> 5 [] c = "6" -> 6 [] c = "7" -> 7
      [] c = "8" -> 8 [] c = "9" -> 9
      [] c \in {"a", "A"} -> 10 [] c \in {"b", "B"} -> 11 [] c \in {"c", "C"} -> 12
      [] c \in {"d", "D"} -> 13 [] c \in {"e", "E"} -> 14 [] c \in {"f", "F"} -> 15
      [] OTHER -> -1

ValidToken(tok) == Len(tok) = 16 /\ \A i \in 1..16 : NibbleOf(tok[i]) >= 0

ToLower(c) ==
    IF \E i \in 11..16 : HexUpper[i] = c
    THEN HexLower[CHOOSE i \in 11..16 : HexUpper[i] = c] ELSE c

ToUpper(c) ==
    IF \E i \in 11..16 : HexLower[i] = c
    THEN HexUpper[CHOOSE i \in 11..16 : HexLower[i] = c] ELSE c

Lowered(tok) == [i \in 1..Len(tok) |-> ToLower(tok[i])]

Uppered(tok) == [i \in 1..Len(tok) |-> ToUpper(tok[i])]

\* byte i (0..7) of a valid token, in string order
ByteOf(tok, i) == NibbleOf(tok[2 * i + 1]) * 16 + NibbleOf(tok[2 * i + 2])

\* the sum of b_j * 256^(j - i) over the bytes j = i..7
RECURSIVE SumFrom(_, _)
SumFrom(tok, i) ==
    IF i > 7 THEN <<>>
    ELSE MagNorm(MagMulAdd(SumFrom(tok, i + 1), 256, ByteOf(tok, i)))

\* the two's-complement value of a valid token read little-endian
LEValue(tok) ==
    IF ByteOf(tok, 7) >= 128
    THEN IntAdd(PyInt(FALSE, SumFrom(tok, 0)), IntNeg(TwoPow64))
    ELSE PyInt(FALSE, SumFrom(tok, 0))

\* days from 1970-01-01 to a civil date, by the era / day-of-era count
DaysFromCivil(y, m, d) ==
    LET yy  == IF m <= 2 THEN y - 1 ELSE y
        era == yy \div 400
        yoe == yy - era * 400
        mp  == IF m > 2 THEN m - 3 ELSE m + 9
        doy == (153 * mp + 2) \div 5 + d - 1
        doe == yoe * 365 + yoe \div 4 - yoe \div 100 + doy
    IN  era * 146097 + doe - 719468

\* the signed count of microseconds from 2000-01-01T00:00:00 to a timestamp
MicrosSinceEpoch(dt) ==
    LET days == DaysFromCivil(dt.year, dt.month, dt.day) - DaysFromCivil(2000, 1, 1)
        secs == dt.hour * 3600 + dt.minute * 60 + dt.second
    IN  IntAdd(IntMulSmall(IntAdd(IntMulSmall(IntFromSmall(days), 86400),
                                  IntFromSmall(secs)), 1000000),
               IntFromSmall(dt.microsecond))

LengthOfMonth(y, m) ==
    IF m = 2 THEN (IF y % 4 = 0 /\ (y % 100 # 0 \/ y % 400 = 0) THEN 29 ELSE 28)
    ELSE IF m \in {4, 6, 9, 11} THEN 30 ELSE 31

ValidTimestamp(dt) ==
    /\ dt.year \in 1..9999
    /\ dt.month \in 1..12
    /\ dt.day \in 1..LengthOfMonth(dt.year, dt.month)
    /\ dt.hour \in 0..23
    /\ dt.minute \in 0..59
    /\ dt.second \in 0..59
    /\ dt.microsecond \in 0..999999
    /\ dt.tzinfo = "UTC"

\* a is strictly earlier than b
Earlier(a, b) ==
    LET ka == <<a.year, a.month, a.day, a.hour, a.minute, a.second, a.microsecond>>
        kb == <<b.year, b.month, b.day, b.hour, b.minute, b.second, b.microsecond>>
    IN  \E i \in 1..7 : ka[i] < kb[i] /\ \A j \in 1..(i - 1) : ka[j] = kb[j]

\* the non-negative remainder of an int modulo 1000000, from its decimal digits
ModMillion(v) ==
    LET low == (IF Len(v.mag) >= 1 THEN v.mag[1] ELSE 0)
               + (IF Len(v.mag) >= 2 THEN v.mag[2] * 1000 ELSE 0)
    IN  IF v.neg THEN (1000000 - low) % 1000000 ELSE low

\* the offsets of 0001-01-01T00:00:00 and of 9999-12-31T23:59:59.999999
MinOffset == IntNeg(Dec(<<63, 82, 281, 600, 0, 0>>))

MaxOffset == Dec(<<252, 455, 615, 999, 999, 999>>)

Representable(v) == IntLe(MinOffset, v) /\ IntLe(v, MaxOffset)

IsInt64(v) == IntLe(IntNeg(TwoPow63), v) /\ IntLt(v, TwoPow63)

(***************************************************************************)
(* Properties of the decoder                                               *)
(***************************************************************************)

\* C1 as stated: for every token of 16 hexadecimal digits of either case,
\* decoding and re-encoding the integer as little-endian hex gives back the
\* token itself, character for character.
C1_RoundTripExact ==
    (DecoderCalled /\ ValidToken(hex_str)) =>
        /\ decoded.tag = "ok"
        /\ int64_to_hex_le(decoded.val) = hex_str

\* C1 amended: for every token of 16 hexadecimal digits, decoding and
\* re-encoding gives back the token with its letters in lower case (so the token
\* itself when it has no upper-case digit), and decoding the re-encoded token
\* gives the same integer.
C1_RoundTripUpToCase ==
    (DecoderCalled /\ ValidToken(hex_str)) =>
        /\ decoded.tag = "ok"
        /\ int64_to_hex_le(decoded.val) = Lowered(hex_str)
        /\ hex_le_to_int64(int64_to_hex_le(decoded.val)) = decoded

\* a negative value decoded from a lower-case token and re-encoded to that token
C1_Witness ==
    /\ DecoderCalled
    /\ hex_str = TokenMinDate
    /\ decoded.tag = "ok"
    /\ decoded.val.neg
    /\ int64_to_hex_le(decoded.val) = hex_str

\* C2: every 16-character token with a character that is no hexadecimal digit
\* (white space included) makes the decoder raise ValueError; it never returns
\* an integer for it.
C2_NonHexRejected ==
    (DecoderCalled /\ Len(hex_str) = 16 /\ ~ValidToken(hex_str)) =>
        /\ decoded.tag = "ValueError"
        /\ pc = "done"
        /\ result = NoValue

\* C3: every token whose length is not 16, whatever its characters, makes the
\* decoder raise ValueError; no integer is returned and nothing is converted.
C3_WrongLengthRejected ==
    (DecoderCalled /\ Len(hex_str) # 16) =>
        /\ decoded.tag = "ValueError"
        /\ pc = "done"
        /\ result = NoValue

\* fourteen hexadecimal digits, which bytes.fromhex alone would accept
C3_Witness ==
    /\ DecoderCalled
    /\ Len(hex_str) = 14
    /\ \A i \in 1..14 : NibbleOf(hex_str[i]) >= 0
    /\ decoded.tag = "ValueError"

\* C4: for every token of 16 hexadecimal digits the decoder returns the sum of
\* b_i * 256^i over its bytes in string order, minus 2^64 when b_7 >= 128; the
\* result is in [-2^63, 2^63 - 1], the token in upper and in lower case decodes
\* to the same integer, and "0a00000000000000" decodes to 10.
C4_TwosComplementLittleEndian ==
    (DecoderCalled /\ ValidToken(hex_str)) =>
        /\ decoded.tag = "ok"
        /\ decoded.val = LEValue(hex_str)
        /\ IsInt64(decoded.val)
        /\ hex_le_to_int64(Lowered(hex_str)) = decoded
        /\ hex_le_to_int64(Uppered(hex_str)) = decoded
        /\ hex_str = TokenTen => decoded.val = IntFromSmall(10)

\* the most negative value, whose only set bit is the sign bit of the last byte
C4_Witness ==
    /\ DecoderCalled
    /\ hex_str = TokenInt64Min
    /\ decoded = Returned(IntNeg(TwoPow63))

\* C9: "a922e78e1bdd0200" decodes to 806060384789161, and the converter turns
\* that integer into 2025-07-17T09:39:44.789161 UTC.
C9_ExampleToken ==
    (DecoderCalled /\ hex_str = TokenExample) =>
        /\ decoded = Returned(Dec(<<806, 60, 384, 789, 161>>))
        /\ pc = "done" =>
              /\ int64_value = Dec(<<806, 60, 384, 789, 161>>)
              /\ result = Returned(datetime(2025, 7, 17, 9, 39, 44, 789161, "UTC"))

C9_Witness ==
    /\ pc = "done"
    /\ hex_str = TokenExample
    /\ result.tag = "ok"
    /\ result.val.year = 2025

(***************************************************************************)
(* Properties of the converter.  A converter call is the print of line 46  *)
(* (PRINT_LITERAL, stdout), a direct call (ref_value, ref_result) or the   *)
(* conversion of a decoded token (int64_value, result).                    *)
(***************************************************************************)
DirectCall == ref_value # NoValue

ComposedCall == int64_value # NoValue

\* C5 as stated: for offset 662770800000000, the value line 46 converts, the
\* converter returns 2021-01-01T03:40:00 UTC.
C5_PrintedAsClaimed ==
    /\ pc # "import" => stdout = Returned(datetime(2021, 1, 1, 3, 40, 0, 0, "UTC"))
    /\ (ComposedCall /\ int64_value = PRINT_LITERAL) =>
           result = Returned(datetime(2021, 1, 1, 3, 40, 0, 0, "UTC"))

\* C5 amended: for offset 662770800000000, the value line 46 converts, the
\* converter returns 2020-12-31T23:00:00 UTC.
C5_Printed ==
    /\ pc # "import" => stdout = Returned(datetime(2020, 12, 31, 23, 0, 0, 0, "UTC"))
    /\ (ComposedCall /\ int64_value = PRINT_LITERAL) =>
           result = Returned(datetime(2020, 12, 31, 23, 0, 0, 0, "UTC"))

\* the import has printed, and the same offset has come out of a decoded token
C5_Witness ==
    /\ stdout.tag = "ok"
    /\ ComposedCall
    /\ int64_value = PRINT_LITERAL
    /\ result = stdout

\* value converts to the timestamp exactly value microseconds from the epoch
ExactlyAt(value, outcome) ==
    outcome.tag = "ok" =>
        /\ ValidTimestamp(outcome.val)
        /\ MicrosSinceEpoch(outcome.val) = value

\* C6: every offset, positive, zero or negative, whose result is representable
\* converts to the UTC timestamp exactly that many microseconds from
\* 2000-01-01T00:00:00 UTC; 0 gives 2000-01-01T00:00:00 and -86400000000 gives
\* 1999-12-31T00:00:00.
C6_ExactOffset ==
    /\ pc # "import" => ExactlyAt(PRINT_LITERAL, stdout)
    /\ DirectCall =>
          /\ ExactlyAt(ref_value, ref_result)
          /\ ref_value = IntZero =>
                ref_result = Returned(datetime(2000, 1, 1, 0, 0, 0, 0, "UTC"))
          /\ ref_value = IntNeg(Dec(<<86, 400, 0, 0>>)) =>
                ref_result = Returned(datetime(1999, 12, 31, 0, 0, 0, 0, "UTC"))
    /\ ComposedCall =>
          /\ ExactlyAt(int64_value, result)
          /\ int64_value = IntZero =>
                result = Returned(datetime(2000, 1, 1, 0, 0, 0, 0, "UTC"))

\* one day before the epoch, and a negative offset that is no whole second
C6_Witness ==
    /\ DirectCall
    /\ ref_value = IntNeg(Dec(<<86, 400, 0, 0>>))
    /\ ref_result = Returned(datetime(1999, 12, 31, 0, 0, 0, 0, "UTC"))
    /\ ComposedCall
    /\ int64_value = IntFromSmall(-1)
    /\ result = Returned(datetime(1999, 12, 31, 23, 59, 59, 999999, "UTC"))

\* the converter raises exactly when the offset is outside the years 1..9999
RaisesExactlyOutOfRange(value, outcome) ==
    /\ outcome.tag \in {"ok", "OverflowError"}
    /\ outcome.tag = "OverflowError" <=> ~Representable(value)
    /\ outcome.tag = "ok" => outcome.val.year \in MINYEAR..MAXYEAR

\* C7: for every signed 64-bit offset the converter raises the out-of-range
\* error (OverflowError) exactly when epoch + offset is outside the years 1 to
\* 9999, returning no timestamp then, and does not fail for any other offset.
C7_OutOfRangeExactly ==
    /\ DirectCall => (IsInt64(ref_value) /\ RaisesExactlyOutOfRange(ref_value, ref_result))
    /\ ComposedCall => (IsInt64(int64_value) /\ RaisesExactlyOutOfRange(int64_value, result))

\* the first microsecond of year 10000 raises, the last one of year 9999 does not
C7_Witness ==
    /\ DirectCall
    /\ ref_value = Dec(<<252, 455, 616, 0, 0, 0>>)
    /\ ref_result = Raised("OverflowError")
    /\ ComposedCall
    /\ hex_str = TokenMaxDate
    /\ result = Returned(datetime(9999, 12, 31, 23, 59, 59, 999999, "UTC"))

\* two converter calls: distinct offsets, distinct timestamps, in the same order
Ordered(v1, o1, v2, o2) ==
    (o1.tag = "ok" /\ o2.tag = "ok") =>
        /\ v1 # v2 => o1 # o2
        /\ IntLt(v1, v2) => Earlier(o1.val, o2.val)
        /\ IntLt(v2, v1) => Earlier(o2.val, o1.val)

\* C8: for every representable offset the microsecond field of the result is
\* the offset modulo 1000000 (non-negative, also for negative offsets); two
\* distinct offsets give two distinct timestamps and a larger offset gives a
\* strictly later timestamp.
C8_MicrosecondExact ==
    /\ (DirectCall /\ ref_result.tag = "ok") =>
           ref_result.val.microsecond = ModMillion(ref_value)
    /\ (ComposedCall /\ result.tag = "ok") =>
           result.val.microsecond = ModMillion(int64_value)
    /\ (DirectCall /\ ComposedCall) => Ordered(ref_value, ref_result, int64_value, result)
    /\ DirectCall => Ordered(ref_value, ref_result, PRINT_LITERAL, stdout)
    /\ ComposedCall => Ordered(int64_value, result, PRINT_LITERAL, stdout)

\* two offsets one microsecond apart, on the two sides of the epoch
C8_Witness ==
    /\ DirectCall
    /\ ref_value = IntFromSmall(-1)
    /\ ComposedCall
    /\ int64_value = IntZero
    /\ ref_result.tag = "ok"
    /\ result.tag = "ok"
    /\ ref_result.val.microsecond = 999999
    /\ Earlier(ref_result.val, result.val)

\* C10: for every token of 16 hexadecimal digits, decoding and converting
\* either returns the timestamp at the epoch plus the token's little-endian
\* signed value in microseconds, or raises the converter's out-of-range error
\* (as for 2^63 - 1 and -2^63); it never raises the decoder's ValueError and
\* never returns another timestamp.
C10_Composition ==
    (DecoderCalled /\ ValidToken(hex_str)) =>
        /\ decoded.tag = "ok"
        /\ pc = "done" =>
              /\ int64_value = decoded.val
              /\ \/ /\ result.tag = "ok"
                    /\ ValidTimestamp(result.val)
                    /\ MicrosSinceEpoch(result.val) = LEValue(hex_str)
                 \/ /\ result = Raised("OverflowError")
                    /\ ~Representable(LEValue(hex_str))
              /\ hex_str \in {TokenInt64Max, TokenInt64Min} => result = Raised("OverflowError")

\* both outcomes: the largest 64-bit value raises
C10_Witness ==
    /\ pc = "done"
    /\ hex_str = TokenInt64Max
    /\ decoded.tag = "ok"
    /\ result = Raised("OverflowError")

=============================================================================
